---- MODULE Spec2Model ----
(***************************************************************************)
(* webpager/features.py: the anchor extractor (HtmlFeaturesExtractor) and  *)
(* the anchor transformers (AnchorTextTransformer,                          *)
(* AnchorContextTransformer, AnchorEditDistanceTransformer).               *)
(*                                                                         *)
(* A Python string is a sequence of symbols.  A symbol is one character    *)
(* (" ", "\n", "x", "y", ...), or a whole pseudo-tag marker such as        *)
(* "__START_PAGE__", or a piece of markup ("<PAGE>", "</PAGE>", "<i>").    *)
(* An optional Python value (None or a value) is <<>> or <<value>>.        *)
(***************************************************************************)
EXTENDS Integers, Sequences, FiniteSets, TLC

VARIABLES
    tagset,     \* HtmlFeaturesExtractor.tagset: the tag names of the Tagset
    input,      \* the argument X of the running fit_transform call: [html, baseurl]
    pc,         \* position of the running call: "start", "walk", "done", "error"
    err,        \* the exception the call raised ("" when none)
    parsed,     \* the sanitized tree as make_links_absolute left it (texts as parsed)
    dom,        \* the sanitized tree; the walk rewrites the text of its anchors
    idx,        \* position of the iterator doc.iter('a') in the tree
    anchors,    \* the list anchors: references (positions in dom) to elements
    labels,     \* the list labels
    ref,        \* the first finished call of the instance: <<>> or <<[input, out, tagset]>>
    tr,         \* a transformer instance: its class, its parameters, its vocabulary
    fitted,     \* the last fit_transform of tr that succeeded: <<>> or <<[batch, matrix, vocab]>>
    last        \* the last call on tr: the method, its argument, what it gave back

xvars == <<tagset, input, pc, err, parsed, dom, idx, anchors, labels, ref>>
tvars == <<tr, fitted, last>>
vars == <<xvars, tvars>>

-----------------------------------------------------------------------------
(* Optional values and strings *)

None == <<>>
Some(v) == <<v>>
IsNone(o) == o = <<>>
Val(o) == o[1]

\* Python's `o or ''` for an optional string
OrEmpty(o) == IF IsNone(o) THEN <<>> ELSE Val(o)

\* Python's dict.get(key, '') for an optional attribute
GetOr(o, default) == IF IsNone(o) THEN default ELSE Val(o)

Whitespace == {" ", "\n"}

RECURSIVE SplitFrom(_, _, _)
\* str.split() scanning s from position i with the token cur under construction
SplitFrom(s, i, cur) ==
    IF i > Len(s)
    THEN IF cur = <<>> THEN <<>> ELSE <<cur>>
    ELSE IF s[i] \in Whitespace
         THEN IF cur = <<>>
              THEN SplitFrom(s, i + 1, <<>>)
              ELSE <<cur>> \o SplitFrom(s, i + 1, <<>>)
         ELSE SplitFrom(s, i + 1, Append(cur, s[i]))

\* tokenize(text): text.split()
tokenize(text) == SplitFrom(text, 1, <<>>)

RECURSIVE JoinFrom(_, _, _)
JoinFrom(sep, parts, i) ==
    IF i > Len(parts) THEN <<>>
    ELSE IF i = Len(parts) THEN parts[i]
    ELSE parts[i] \o sep \o JoinFrom(sep, parts, i + 1)

\* sep.join(parts)
Join(sep, parts) == JoinFrom(sep, parts, 1)

-----------------------------------------------------------------------------
(* preprocess.Tagset, as the specification describes the tag codec *)

StartMarker(tag) == "__START_" \o tag \o "__"
EndMarker(tag) == "__END_" \o tag \o "__"
OpenTag(tag) == "<" \o tag \o ">"
CloseTag(tag) == "</" \o tag \o ">"

\* Tagset.start_tag_or_none(token): the tag whose start marker token is, or None
start_tag_or_none(tags, token) ==
    IF Len(token) = 1 /\ \E t \in tags : token[1] = StartMarker(t)
    THEN Some(CHOOSE t \in tags : token[1] = StartMarker(t))
    ELSE None

\* Tagset.end_tag_or_none(token): the tag whose end marker token is, or None
end_tag_or_none(tags, token) ==
    IF Len(token) = 1 /\ \E t \in tags : token[1] = EndMarker(t)
    THEN Some(CHOOSE t \in tags : token[1] = EndMarker(t))
    ELSE None

RECURSIVE EncodeFrom(_, _, _)
EncodeFrom(tags, s, i) ==
    IF i > Len(s) THEN <<>>
    ELSE (IF \E t \in tags : s[i] = OpenTag(t)
          THEN <<" ", StartMarker(CHOOSE t \in tags : s[i] = OpenTag(t)), " ">>
          ELSE IF \E t \in tags : s[i] = CloseTag(t)
          THEN <<" ", EndMarker(CHOOSE t \in tags : s[i] = CloseTag(t)), " ">>
          ELSE <<s[i]>>) \o EncodeFrom(tags, s, i + 1)

\* Tagset.encode_tags(html): every pseudo-tag of the tagset becomes its marker,
\* set off by whitespace; here on the content of one element
encode_tags(tags, content) == EncodeFrom(tags, content, 1)

\* Python truth value of an optional tag name: None and '' are false
Truthy(o) == ~IsNone(o) /\ Val(o) # ""

\* the test with the end markers forgotten
IsTagToken_StartOnly(tags, token) == Truthy(start_tag_or_none(tags, token))

\* the test of the comprehension: start_tag_or_none(token) or end_tag_or_none(token)
IsTagToken(tags, token) ==
    Truthy(start_tag_or_none(tags, token)) \/ Truthy(end_tag_or_none(tags, token))

-----------------------------------------------------------------------------
(* URLs: [abs, path, query]; abs says the URL has a scheme and a host, path   *)
(* is its list of segments, query its list of <<key, value>> pairs            *)

\* urlparse.urljoin(base, url)
urljoin(base, url) ==
    IF url.abs THEN url
    ELSE IF base.path = <<>> /\ ~base.abs THEN url
    ELSE IF url.path = <<>> THEN [base EXCEPT !.query = url.query]
    ELSE [abs |-> base.abs,
          path |-> (IF base.path = <<>> THEN <<>>
                    ELSE SubSeq(base.path, 1, Len(base.path) - 1)) \o url.path,
          query |-> url.query]

-----------------------------------------------------------------------------
(* lxml: parsing, the module's Cleaner, link resolution *)

\* the tags _cleaner removes with their whole subtree: scripts, style, links and
\* embedded set, frames and forms left at the Cleaner's defaults
KillTags == {"script", "style", "link", "applet", "frameset", "frame", "noframes",
             "button", "input", "select", "textarea"}

IsMarkup(sym) == sym \in {"<i>", "<PAGE>", "</PAGE>", "<NEXT>", "</NEXT>"}

RECURSIVE TextBefore(_, _)
\* the characters of content before its first child element, from position i
TextBefore(content, i) ==
    IF i > Len(content) \/ IsMarkup(content[i]) THEN <<>>
    ELSE <<content[i]>> \o TextBefore(content, i + 1)

\* element.text: the text before the first child, None when there is none
ElementText(content) ==
    IF TextBefore(content, 1) = <<>> THEN None ELSE Some(TextBefore(content, 1))

RECURSIVE CleanFrom(_, _)
CleanFrom(html, i) ==
    IF i > Len(html) THEN <<>>
    ELSE (IF html[i].tag \in KillTags \/ html[i].parent \in KillTags
          THEN <<>>
          ELSE << [tag |-> html[i].tag,
                   text |-> ElementText(html[i].content),
                   href |-> html[i].href,
                   class |-> html[i].class,
                   id |-> html[i].id,
                   src |-> i] >>) \o CleanFrom(html, i + 1)

\* clean_html(html, encoding): the elements of the parsed document, in document
\* order, that _cleaner keeps
clean_html(html) == CleanFrom(html, 1)

\* doc.make_links_absolute(baseurl), baseurl given
make_links_absolute(doc, baseurl) ==
    [i \in 1..Len(doc) |->
        IF IsNone(doc[i].href) THEN doc[i]
        ELSE [doc[i] EXCEPT !.href = Some(urljoin(baseurl, Val(doc[i].href)))]]

-----------------------------------------------------------------------------
(* HtmlFeaturesExtractor.fit_transform *)

RECURSIVE NoTagFrom(_, _, _)
NoTagFrom(tags, tokens, i) ==
    IF i > Len(tokens) THEN <<>>
    ELSE (IF ~IsTagToken(tags, tokens[i]) THEN <<tokens[i]>> ELSE <<>>)
         \o NoTagFrom(tags, tokens, i + 1)

\* no_tag_tokens: the tokens that are neither a start nor an end marker
no_tag_tokens(tags, tokens) == NoTagFrom(tags, tokens, 1)

\* the tokens joined with no separator
RewrittenText_NoSeparator(kept) == Some(Join(<<>>, kept))

\* the text left absent when no token is kept
RewrittenText_NoneWhenEmpty(kept) ==
    IF kept = <<>> THEN None ELSE Some(Join(<<" ">>, kept))

\* the value assigned to anchor.text
RewrittenText(kept) == Some(Join(<<" ">>, kept))

\* the value appended to labels
WeakLabel(tokens, kept) == IF Len(tokens) # Len(kept) THEN 1 ELSE 0

\* the positions of the anchor elements of doc at or after position i
AnchorsFrom(doc, i) == {j \in i..Len(doc) : doc[j].tag = "a"}

\* an iterator that jumps to the last anchor
NextAnchor_Last(doc, i) ==
    CHOOSE j \in AnchorsFrom(doc, i) : \A k \in AnchorsFrom(doc, i) : j >= k

\* the element doc.iter('a') yields next, with the iterator at position i
NextAnchor(doc, i) == CHOOSE j \in AnchorsFrom(doc, i) : \A k \in AnchorsFrom(doc, i) : j <= k

\* html = self.tagset.encode_tags(x): every element's content is encoded
EncodedHtml(tags, html) ==
    [i \in 1..Len(html) |-> [html[i] EXCEPT !.content = encode_tags(tags, @)]]

\* what a finished call handed to its caller: the exception, or the anchors (as
\* they read at the return) and the labels
Outcome ==
    IF pc = "error" THEN [status |-> err, anchors |-> <<>>, labels |-> <<>>]
    ELSE [status |-> "ok",
          anchors |-> [k \in 1..Len(anchors) |-> dom[anchors[k]]],
          labels |-> labels]

-----------------------------------------------------------------------------
(* The inputs *)

MaxNodes == 2

\* the contents of an anchor of the input page
Contents ==
    { <<>>,
      <<"x">>,
      <<" ", "y", "\n", " ", "x", " ">>,
      <<"__START_PAGE__">>,
      <<"x", "__START_PAGE__">>,
      <<"<PAGE>", "x", "</PAGE>">>,
      <<"y", " ", "__START_PAGE__", " ", "x", " ", "__END_PAGE__">>,
      <<"<i>", "__START_PAGE__">> }

RelativeUrl ==
    [abs |-> FALSE, path |-> <<"3">>,
     query |-> << << <<"p", "g">>, "1" >>, << <<"b">>, "" >>, << <<"n">>, "2" >> >>]
AbsoluteUrl == [abs |-> TRUE, path |-> <<"p", "2">>, query |-> <<>>]

\* the href, class and id attributes of an anchor of the input page
Attributes ==
    { [href |-> None, class |-> None, id |-> None],
      [href |-> Some(RelativeUrl), class |-> Some(<<"n", "x">>), id |-> None],
      [href |-> Some(AbsoluteUrl), class |-> None, id |-> Some(<<"i", "d">>)] }

Element(tag, parent, content, attrs) ==
    [tag |-> tag, parent |-> parent, content |-> content,
     href |-> attrs.href, class |-> attrs.class, id |-> attrs.id]

NoAttributes == [href |-> None, class |-> None, id |-> None]

\* the elements of an input page: anchors in the body, an anchor inside an
\* applet, an anchor inside an object, a script and a paragraph
Elements ==
    {Element("a", "body", c, at) : c \in Contents, at \in Attributes}
    \cup {Element("a", "applet", <<"x">>, NoAttributes),
          Element("a", "object", <<"__END_PAGE__">>, NoAttributes),
          Element("script", "body", <<"x">>, NoAttributes),
          Element("p", "body", <<"__START_PAGE__">>, NoAttributes)}

\* the pages of at most n elements; the empty one is the document lxml cannot parse
Pages(n) == UNION {[1..k -> Elements] : k \in 0..n}

\* the base URLs: none, one without scheme and host, a valid one
BaseUrls ==
    { None,
      Some([abs |-> FALSE, path |-> <<"garbage">>, query |-> <<>>]),
      Some([abs |-> TRUE, path |-> <<"p", "1">>, query |-> <<>>]) }

Inputs == [html : Pages(MaxNodes), baseurl : BaseUrls]

\* the tags an extractor is constructed with
DefaultTags == {{"PAGE"}, {"NEXT"}}

-----------------------------------------------------------------------------
(* The extractor's steps *)

\* __init__, and the first call of fit_transform entered
XInit ==
    /\ tagset \in DefaultTags
    /\ input \in Inputs
    /\ pc = "start"
    /\ err = ""
    /\ parsed = <<>>
    /\ dom = <<>>
    /\ idx = 1
    /\ anchors = <<>>
    /\ labels = <<>>
    /\ ref = None
    /\ tr = None
    /\ fitted = None
    /\ last = None

\* lines 76-82: encode the tags, parse and clean, resolve the links, start the lists
Start ==
    /\ pc = "start"
    /\ LET doc == clean_html(EncodedHtml(tagset, input.html)) IN
       IF input.html = <<>>
       THEN /\ pc' = "error"
            /\ err' = "ParserError"
            /\ UNCHANGED <<parsed, dom>>
       ELSE IF IsNone(input.baseurl)
       THEN /\ pc' = "error"
            /\ err' = "TypeError"
            /\ UNCHANGED <<parsed, dom>>
       ELSE /\ pc' = "walk"
            /\ err' = ""
            /\ parsed' = make_links_absolute(doc, Val(input.baseurl))
            /\ dom' = make_links_absolute(doc, Val(input.baseurl))
    /\ idx' = 1
    /\ anchors' = <<>>
    /\ labels' = <<>>
    /\ UNCHANGED <<tagset, input, ref, tvars>>

\* a turn of the loop that also adds to the extractor's tagset every tag whose
\* marker it meets
Step_LearnsTags ==
    /\ pc = "walk"
    /\ AnchorsFrom(dom, idx) # {}
    /\ LET a == NextAnchor(dom, idx)
           tokens == tokenize(OrEmpty(dom[a].text))
           kept == no_tag_tokens(tagset, tokens)
       IN /\ dom' = [dom EXCEPT ![a].text = RewrittenText(kept)]
          /\ anchors' = Append(anchors, a)
          /\ labels' = Append(labels, WeakLabel(tokens, kept))
          /\ idx' = a + 1
          /\ tagset' = tagset \cup {t \in {"PAGE", "NEXT"} :
                                      \E n \in 1..Len(tokens) : tokens[n] = <<StartMarker(t)>>}
    /\ UNCHANGED <<input, pc, err, parsed, ref, tvars>>

\* lines 83-89: one turn of the loop over doc.iter('a')
Step ==
    /\ pc = "walk"
    /\ AnchorsFrom(dom, idx) # {}
    /\ LET a == NextAnchor(dom, idx)
           tokens == tokenize(OrEmpty(dom[a].text))
           kept == no_tag_tokens(tagset, tokens)
       IN /\ dom' = [dom EXCEPT ![a].text = RewrittenText(kept)]
          /\ anchors' = Append(anchors, a)
          /\ labels' = Append(labels, WeakLabel(tokens, kept))
          /\ idx' = a + 1
    /\ UNCHANGED <<tagset, input, pc, err, parsed, ref, tvars>>

\* line 91: the iterator is exhausted, the two lists are returned
Return ==
    /\ pc = "walk"
    /\ AnchorsFrom(dom, idx) = {}
    /\ pc' = "done"
    /\ UNCHANGED <<tagset, input, err, parsed, dom, idx, anchors, labels, ref, tvars>>

\* line 63: the caller calls fit_transform again, on an input of ins; the locals
\* of the call that returned are gone
Call(ins) ==
    /\ pc \in {"done", "error"}
    /\ input' \in ins
    /\ pc' = "start"
    /\ err' = ""
    /\ parsed' = <<>>
    /\ dom' = <<>>
    /\ idx' = 1
    /\ anchors' = <<>>
    /\ labels' = <<>>
    /\ UNCHANGED <<tagset, tvars>>

XNext ==
    \/ Start
    \/ Step
    \/ Return

Spec == XInit /\ [][XNext]_vars

-----------------------------------------------------------------------------
(* One extractor, called again and again *)

\* the elements of the pages of the repeated calls
CallElements ==
    { Element("a", "body", <<"y", " ", "__START_PAGE__", " ", "x", " ", "__END_PAGE__">>,
              [href |-> Some(RelativeUrl), class |-> Some(<<"n", "x">>), id |-> None]),
      Element("a", "body", <<"<PAGE>", "x", "</PAGE>">>, NoAttributes),
      Element("a", "body", <<"x", "__START_PAGE__">>, NoAttributes) }

CallInputs ==
    [html : UNION {[1..k -> CallElements] : k \in 0..MaxNodes}, baseurl : BaseUrls]

CInit ==
    /\ XInit
    /\ input \in CallInputs

\* the next call; the first call that finished is remembered with its outcome and
\* the extractor as it was then
CallAgain ==
    /\ Call(CallInputs)
    /\ ref' = IF IsNone(ref)
              THEN Some([input |-> input, out |-> Outcome, tagset |-> tagset])
              ELSE ref

CNext ==
    \/ Start
    \/ Step
    \/ Return
    \/ CallAgain

SpecCalls == CInit /\ [][CNext]_vars

-----------------------------------------------------------------------------
(* The text-extraction strategies, lines 30-38 *)

\* get_text(anchor): anchor.text
get_text(anchor) == anchor.text

\* get_attr_text(anchor): anchor.get('class', '') + anchor.get('id', '')
get_attr_text(anchor) == Some(GetOr(anchor.class, <<>>) \o GetOr(anchor.id, <<>>))

RECURSIVE QueryKeysFrom(_, _, _)
\* the keys of parse_qs(query): the keys with a non-blank value, each once
QueryKeysFrom(query, i, seen) ==
    IF i > Len(query) THEN <<>>
    ELSE IF query[i][2] = "" \/ query[i][1] \in seen
         THEN QueryKeysFrom(query, i + 1, seen)
         ELSE <<query[i][1]>> \o QueryKeysFrom(query, i + 1, seen \cup {query[i][1]})

\* get_query_params(anchor): the keys of the query of the href, space-joined
get_query_params(anchor) ==
    LET query == IF IsNone(anchor.href) THEN <<>> ELSE Val(anchor.href).query
    IN Some(Join(<<" ">>, QueryKeysFrom(query, 1, {})))

-----------------------------------------------------------------------------
(* Claims about the extractor *)

\* the text an anchor had before the walk rewrote it
RawText(k) == OrEmpty(parsed[anchors[k]].text)

\* the tagset recognises the token as a start or an end marker
Recognised(token) ==
    ~IsNone(start_tag_or_none(tagset, token)) \/ ~IsNone(end_tag_or_none(tagset, token))

HasMarkerToken(text) ==
    \E n \in 1..Len(tokenize(text)) : Recognised(tokenize(text)[n])

MarkedAnchors == {k \in 1..Len(anchors) : HasMarkerToken(RawText(k))}

\* C1: the label of an anchor is 1 exactly when a token of its raw text is a
\* start or end marker of the tagset, and 0 otherwise; when exactly one anchor
\* holds a marker, its label is 1 and every other label is 0
C1_LabelIffMarkerToken ==
    /\ \A k \in 1..Len(labels) :
          /\ labels[k] \in {0, 1}
          /\ labels[k] = 1 <=> HasMarkerToken(RawText(k))
    /\ (pc = "done" /\ Cardinality(MarkedAnchors) = 1) =>
          \A k \in 1..Len(labels) : labels[k] = (IF k \in MarkedAnchors THEN 1 ELSE 0)

C1_Witness ==
    /\ pc = "done"
    /\ Len(anchors) = 2
    /\ Cardinality(MarkedAnchors) = 1
    /\ \E k \in 1..2 : labels[k] = 1 /\ Len(tokenize(RawText(k))) > 1

NotRecognised(token) == ~Recognised(token)

\* C2: the text of a returned anchor is the single-space join of the non-marker
\* tokens of its raw text, in their order: its tokens are those tokens, it has
\* no other whitespace, and none of its tokens is a marker
C2_TextIsJoinOfNonMarkers ==
    \A k \in 1..Len(anchors) :
        LET text == dom[anchors[k]].text
            t == Val(text)
        IN /\ ~IsNone(text)
           /\ tokenize(t) = SelectSeq(tokenize(RawText(k)), NotRecognised)
           /\ \A n \in 1..Len(t) :
                 /\ t[n] # "\n"
                 /\ t[n] = " " => (1 < n /\ n < Len(t) /\ t[n + 1] # " ")
           /\ ~HasMarkerToken(t)

C2_Witness ==
    /\ pc = "done"
    /\ \E k \in 1..Len(anchors) :
          /\ Len(tokenize(RawText(k))) = 4
          /\ dom[anchors[k]].text = Some(<<"y", " ", "x">>)

\* C3 (as claimed): a call whose base URL is absent or invalid fails; it never
\* returns anchors whose links were left unresolved
C3_InvalidBaseUrlFails ==
    (IsNone(input.baseurl) \/ ~Val(input.baseurl).abs) =>
        ~(/\ pc = "done"
          /\ \E k \in 1..Len(anchors) :
                ~IsNone(dom[anchors[k]].href) /\ ~Val(dom[anchors[k]].href).abs)

AnchorsBefore(i) == {j \in 1..Len(dom) : j < i /\ dom[j].tag = "a"}

\* C4: at every step of the walk the two lists have one length, the labels are
\* 0 or 1, and the anchors are the anchor elements of the sanitized document the
\* iterator has passed, each once, in document order; all of them at the return
C4_ParallelLists ==
    /\ Len(anchors) = Len(labels)
    /\ \A k \in 1..Len(labels) : labels[k] \in {0, 1}
    /\ \A k \in 1..Len(anchors) : anchors[k] \in 1..Len(dom) /\ dom[anchors[k]].tag = "a"
    /\ \A k \in 1..Len(anchors) : \A m \in 1..Len(anchors) : k < m => anchors[k] < anchors[m]
    /\ pc = "walk" => {anchors[k] : k \in 1..Len(anchors)} = AnchorsBefore(idx)
    /\ pc = "done" => {anchors[k] : k \in 1..Len(anchors)} = AnchorsBefore(Len(dom) + 1)

C4_Witness ==
    /\ pc = "walk"
    /\ Len(anchors) = 1
    /\ Len(labels) = 1
    /\ AnchorsFrom(dom, idx) # {}

\* C5: a call leaves the extractor as it was, and a call on the input of the
\* first call of the instance ends as that call did: the same error, or the same
\* anchors in the same order with the same texts and the same labels
C5_Deterministic ==
    ~IsNone(ref) =>
        /\ tagset = Val(ref).tagset
        /\ (pc \in {"done", "error"} /\ input = Val(ref).input) => Outcome = Val(ref).out

C5_Witness ==
    /\ ~IsNone(ref)
    /\ pc = "done"
    /\ input = Val(ref).input
    /\ Len(anchors) = 2
    /\ labels = <<1, 0>>

\* C10: for every returned anchor each strategy gives a string: an anchor
\* without text gives '' (and has label 0), missing class and id give '', a
\* missing href gives ''
C10_StrategiesReturnStrings ==
    \A k \in 1..Len(anchors) :
        LET a == dom[anchors[k]] IN
        /\ ~IsNone(get_text(a))
        /\ ~IsNone(get_attr_text(a))
        /\ ~IsNone(get_query_params(a))
        /\ IsNone(parsed[anchors[k]].text) => (get_text(a) = Some(<<>>) /\ labels[k] = 0)
        /\ (IsNone(a.class) /\ IsNone(a.id)) => get_attr_text(a) = Some(<<>>)
        /\ IsNone(a.href) => get_query_params(a) = Some(<<>>)

C10_Witness ==
    /\ pc = "done"
    /\ \E k \in 1..Len(anchors) :
          /\ IsNone(parsed[anchors[k]].text)
          /\ IsNone(dom[anchors[k]].href)
          /\ IsNone(dom[anchors[k]].class)
    /\ \E k \in 1..Len(anchors) : get_query_params(dom[anchors[k]]) = Some(<<"p", "g", " ", "n">>)

-----------------------------------------------------------------------------
(* sorted(): the order of the terms of a vocabulary *)

\* the symbols in ascending order
SortOrder ==
    <<" ", "2", "=", "N", "a", "block_length", "div", "e", "g", "k", "li", "n",
      "number_pattern", "p", "parent_tag", "s", "t", "x">>

\* the rank of every symbol
Rank ==
    [sym \in {SortOrder[n] : n \in 1..Len(SortOrder)} |->
        CHOOSE n \in 1..Len(SortOrder) : SortOrder[n] = sym]

Ord(sym) == Rank[sym]

RECURSIVE LessFrom(_, _, _)
LessFrom(s, t, i) ==
    IF i > Len(t) THEN FALSE
    ELSE IF i > Len(s) THEN TRUE
    ELSE IF s[i] = t[i] THEN LessFrom(s, t, i + 1)
    ELSE Ord(s[i]) < Ord(t[i])

\* s < t for two strings
Less(s, t) == LessFrom(s, t, 1)

\* the vocabulary of a set of terms: sorted(terms) numbered from 0
IndexBySort(terms) == [t \in terms |-> Cardinality({u \in terms : Less(u, t)})]

\* the term of column j (columns counted from 1 here)
TermOf(vocab, j) == CHOOSE t \in DOMAIN vocab : vocab[t] = j - 1

NoMatrix == [rows |-> <<>>, ncols |-> 0]

-----------------------------------------------------------------------------
(* sklearn's CountVectorizer as AnchorTextTransformer.__init__ configures it: *)
(* analyzer 'char', ngram_range (2, 4), min_df 1, binary                      *)

NgramMin == 2
NgramMax == 4

\* str.lower()
Lower(sym) == IF sym = "N" THEN "n" ELSE sym

Lowercase(s) == [i \in 1..Len(s) |-> Lower(s[i])]

RECURSIVE SkipWhitespace(_, _)
SkipWhitespace(s, i) ==
    IF i <= Len(s) /\ s[i] \in Whitespace THEN SkipWhitespace(s, i + 1) ELSE i

RECURSIVE SqueezeFrom(_, _)
\* the char analyzer's whitespace normalisation: a run of two or more
\* whitespace characters becomes one space
SqueezeFrom(s, i) ==
    IF i > Len(s) THEN <<>>
    ELSE IF s[i] \in Whitespace /\ i < Len(s) /\ s[i + 1] \in Whitespace
         THEN <<" ">> \o SqueezeFrom(s, SkipWhitespace(s, i))
         ELSE <<s[i]>> \o SqueezeFrom(s, i + 1)

\* the character n-grams of a text
CharNgrams(text) ==
    LET d == SqueezeFrom(Lowercase(text), 1)
        top == IF NgramMax < Len(d) THEN NgramMax ELSE Len(d)
    IN UNION {{SubSeq(d, i, i + n - 1) : i \in 1..(Len(d) - n + 1)} : n \in NgramMin..top}

\* the binary term matrix of texts over a vocabulary
CountMatrix(vocab, texts) ==
    LET n == Cardinality(DOMAIN vocab)
        term == [j \in 1..n |-> TermOf(vocab, j)]
    IN [rows |-> [i \in 1..Len(texts) |->
                    LET grams == CharNgrams(texts[i])
                    IN [j \in 1..n |-> IF term[j] \in grams THEN 1 ELSE 0]],
        ncols |-> n]

\* CountVectorizer.fit_transform(texts)
CountVectorizer_fit_transform(texts) ==
    LET terms == UNION {CharNgrams(texts[i]) : i \in 1..Len(texts)} IN
    IF terms = {}
    THEN [status |-> "ValueError", vocab |-> None, matrix |-> NoMatrix]
    ELSE LET vocab == IndexBySort(terms)
         IN [status |-> "ok", vocab |-> Some(vocab), matrix |-> CountMatrix(vocab, texts)]

\* a transform that takes the terms of its batch into the vocabulary
CountVectorizer_transform_Refits(vocab, texts) ==
    IF IsNone(vocab)
    THEN [status |-> "ValueError", vocab |-> vocab, matrix |-> NoMatrix]
    ELSE LET terms == DOMAIN Val(vocab)
                      \cup UNION {CharNgrams(texts[i]) : i \in 1..Len(texts)}
         IN [status |-> "ok", vocab |-> Some(IndexBySort(terms)),
             matrix |-> CountMatrix(IndexBySort(terms), texts)]

\* CountVectorizer.transform(texts), the vectorizer's vocabulary being vocab
CountVectorizer_transform(vocab, texts) ==
    IF IsNone(vocab)
    THEN [status |-> "ValueError", vocab |-> vocab, matrix |-> NoMatrix]
    ELSE [status |-> "ok", vocab |-> vocab, matrix |-> CountMatrix(Val(vocab), texts)]

-----------------------------------------------------------------------------
(* sklearn's DictVectorizer; a feature value is <<"str", s>> or <<"num", n>> *)

\* the column name of a feature: key=value for a string value, the key otherwise
FeatureName(key, value) == IF value[1] = "str" THEN <<key, "=", value[2]>> ELSE <<key>>

\* the number a feature contributes: 1 for a string value, the value otherwise
FeatureValue(value) == IF value[1] = "str" THEN 1 ELSE value[2]

DictNames(d) == {FeatureName(k, d[k]) : k \in DOMAIN d}

DictMatrix(vocab, dicts) ==
    LET n == Cardinality(DOMAIN vocab)
        term == [j \in 1..n |-> TermOf(vocab, j)]
    IN [rows |-> [i \in 1..Len(dicts) |->
                    LET names == DictNames(dicts[i])
                    IN [j \in 1..n |-> IF term[j] \in names
                                       THEN FeatureValue(dicts[i][term[j][1]])
                                       ELSE 0]],
        ncols |-> n]

\* DictVectorizer.fit_transform(dicts)
DictVectorizer_fit_transform(dicts) ==
    LET names == UNION {DictNames(dicts[i]) : i \in 1..Len(dicts)}
        vocab == IndexBySort(names)
    IN [status |-> "ok", vocab |-> Some(vocab), matrix |-> DictMatrix(vocab, dicts)]

\* DictVectorizer.transform(dicts), the vectorizer's vocabulary being vocab
DictVectorizer_transform(vocab, dicts) ==
    IF IsNone(vocab)
    THEN [status |-> "AttributeError", vocab |-> vocab, matrix |-> NoMatrix]
    ELSE [status |-> "ok", vocab |-> vocab, matrix |-> DictMatrix(Val(vocab), dicts)]

-----------------------------------------------------------------------------
(* functions.py, as the specification describes the support functions *)

Digits == {"2"}

\* parent_tag(anchor, url)
parent_tag(anchor, url) == [k \in {"parent_tag"} |-> <<"str", anchor.parent>>]

\* block_length(anchor, url)
block_length(anchor, url) == [k \in {"block_length"} |-> <<"num", anchor.blocklen>>]

\* number_pattern(anchor, url)
number_pattern(anchor, url) ==
    LET t == OrEmpty(anchor.text) IN
    [k \in {"number_pattern"} |->
        <<"num", IF t # <<>> /\ \A i \in 1..Len(t) : t[i] \in Digits THEN 1 ELSE 0>>]

\* a URL as a string: the scheme and host, then the segments of the path
UrlString(url) == (IF url.abs THEN <<"http://x.com">> ELSE <<>>) \o url.path

RECURSIVE Levenshtein(_, _, _, _)
\* the edit distance of the first i symbols of s and the first j symbols of t
Levenshtein(s, t, i, j) ==
    IF i = 0 THEN j
    ELSE IF j = 0 THEN i
    ELSE LET del == Levenshtein(s, t, i - 1, j) + 1
             ins == Levenshtein(s, t, i, j - 1) + 1
             sub == Levenshtein(s, t, i - 1, j - 1) + (IF s[i] = t[j] THEN 0 ELSE 1)
             m == IF del < ins THEN del ELSE ins
         IN IF m < sub THEN m ELSE sub

\* url_edit_distance(anchor, url)
url_edit_distance(anchor, url) ==
    LET h == IF IsNone(anchor.href) THEN <<>> ELSE UrlString(Val(anchor.href))
        u == UrlString(url)
    IN Levenshtein(h, u, Len(h), Len(u))

-----------------------------------------------------------------------------
(* AnchorContextTransformer._apply_funcs *)

\* two feature functions a caller may configure; their keys collide
count_links(anchor, url) == [k \in {"k", "block_length"} |-> <<"num", 1>>]
count_pages(anchor, url) == [k \in {"k"} |-> <<"num", 2>>]

\* func(anchor, url) for a configured function
ApplyFunc(func, anchor, url) ==
    CASE func = "parent_tag" -> parent_tag(anchor, url)
      [] func = "block_length" -> block_length(anchor, url)
      [] func = "number_pattern" -> number_pattern(anchor, url)
      [] func = "count_links" -> count_links(anchor, url)
      [] func = "count_pages" -> count_pages(anchor, url)

\* an update that keeps the value a key already has
Update_KeepsOld(d, e) ==
    [k \in DOMAIN d \cup DOMAIN e |-> IF k \in DOMAIN d THEN d[k] ELSE e[k]]

\* d.update(e)
Update(d, e) ==
    [k \in DOMAIN d \cup DOMAIN e |-> IF k \in DOMAIN e THEN e[k] ELSE d[k]]

RECURSIVE ApplyFrom(_, _, _, _, _)
ApplyFrom(funcs, i, d, anchor, url) ==
    IF i > Len(funcs) THEN d
    ELSE ApplyFrom(funcs, i + 1, Update(d, ApplyFunc(funcs[i], anchor, url)), anchor, url)

\* _apply_funcs(anchor, url)
apply_funcs(funcs, anchor, url) == ApplyFrom(funcs, 1, <<>>, anchor, url)

-----------------------------------------------------------------------------
(* The transformers and their inputs *)

MaxBatch == 2

PageUrl == [abs |-> TRUE, path |-> <<"p", "1">>, query |-> <<>>]

\* anchors as the extractor returns them, with the context the support
\* functions read: the tag of the parent and the length of the enclosing block
PairAnchors ==
    { [tag |-> "a", text |-> Some(<<"N", "e", "x", "t">>),
       href |-> Some([abs |-> TRUE, path |-> <<"p", "2">>,
                      query |-> << << <<"p", "g">>, "2" >> >>]),
       class |-> Some(<<"n", "x">>), id |-> Some(<<"t">>),
       parent |-> "div", blocklen |-> 4],
      [tag |-> "a", text |-> Some(<<"e", "x", "t", "a">>),
       href |-> Some([abs |-> TRUE, path |-> <<"s">>,
                      query |-> << << <<"p", "g", "s">>, "1" >> >>]),
       class |-> Some(<<"x", "t">>), id |-> None,
       parent |-> "div", blocklen |-> 2],
      [tag |-> "a", text |-> Some(<<"2">>),
       href |-> None,
       class |-> None, id |-> None,
       parent |-> "li", blocklen |-> 0] }

\* the (anchor, url) pairs of one page
Pairs == {<<a, PageUrl>> : a \in PairAnchors}

\* the batches X of k pairs, k from lo to hi
Batches(lo, hi) == UNION {[1..k -> Pairs] : k \in lo..hi}

\* the batches given to the vectorizing transformers, and to the edit-distance one
VectorizerBatches == Batches(1, MaxBatch)
EditBatches == Batches(0, MaxBatch)

\* line 40, and two lists of a caller's own
default_funcs == <<"parent_tag", "block_length", "number_pattern">>

FeatureFuncs ==
    {default_funcs, <<"block_length", "count_links", "count_pages">>,
     <<"count_pages", "parent_tag", "count_links">>}

Strategies == {"get_text", "get_attr_text", "get_query_params"}

\* self._get_text(anchor)
StrategyText(strategy, anchor) ==
    CASE strategy = "get_text" -> get_text(anchor)
      [] strategy = "get_attr_text" -> get_attr_text(anchor)
      [] strategy = "get_query_params" -> get_query_params(anchor)

\* lines 97-99, 120-124, 137: a transformer as constructed
Transformers ==
    {[class |-> "AnchorTextTransformer", get_text |-> g, vocab |-> None] : g \in Strategies}
    \cup {[class |-> "AnchorContextTransformer", feature_funcs |-> f, vocab |-> None] :
            f \in FeatureFuncs}
    \cup {[class |-> "AnchorEditDistanceTransformer", attrs |-> {}]}

TInit ==
    /\ tagset = {"PAGE"}
    /\ input = [html |-> <<>>, baseurl |-> None]
    /\ pc = "idle"
    /\ err = ""
    /\ parsed = <<>>
    /\ dom = <<>>
    /\ idx = 1
    /\ anchors = <<>>
    /\ labels = <<>>
    /\ ref = None
    /\ tr \in Transformers
    /\ fitted = None
    /\ last = None

\* texts = [self._get_text(anchor) for anchor, _ in X]
TextsOf(strategy, X) == [i \in 1..Len(X) |-> StrategyText(strategy, X[i][1])]

\* the generator self._apply_funcs(anchor, url) for anchor, url in X
DictsOf(funcs, X) == [i \in 1..Len(X) |-> apply_funcs(funcs, X[i][1], X[i][2])]

\* what a call leaves behind: the vocabulary of the instance, the record of the
\* last fit that succeeded, the record of the call
Fitted(X, r) ==
    /\ tr' = [tr EXCEPT !.vocab = IF r.status = "ok" THEN r.vocab ELSE @]
    /\ fitted' = IF r.status = "ok"
                 THEN Some([batch |-> X, matrix |-> r.matrix, vocab |-> Val(r.vocab)])
                 ELSE fitted

Called(op, X, fed, r) ==
    last' = Some([op |-> op, batch |-> X, fed |-> fed, status |-> r.status,
                  matrix |-> r.matrix, used |-> tr.vocab, ret |-> "matrix"])

\* the texts handed to the vectorizer; a text that is None makes it raise
TextCall(texts, r) ==
    IF \E i \in 1..Len(texts) : IsNone(texts[i])
    THEN [status |-> "AttributeError", vocab |-> None, matrix |-> NoMatrix]
    ELSE r

\* the strings of texts that hold no None
Strings(texts) == [i \in 1..Len(texts) |-> Val(texts[i])]

\* lines 129-131: AnchorTextTransformer.fit_transform(X)
TextFitTransform ==
    /\ tr.class = "AnchorTextTransformer"
    /\ \E X \in VectorizerBatches :
       \E texts \in {TextsOf(tr.get_text, X)} :
       \E r \in {TextCall(texts, CountVectorizer_fit_transform(Strings(texts)))} :
          Fitted(X, r) /\ Called("fit_transform", X, texts, r)
    /\ UNCHANGED xvars

\* a transform that lets the vectorizer learn the terms of its batch
TextTransform_Learns ==
    /\ tr.class = "AnchorTextTransformer"
    /\ \E X \in VectorizerBatches :
       \E texts \in {TextsOf(tr.get_text, X)} :
       \E r \in {TextCall(texts, CountVectorizer_transform(tr.vocab, Strings(texts)))} :
          /\ tr' = [tr EXCEPT !.vocab =
                       IF r.status = "ok"
                       THEN Some(IndexBySort(DOMAIN Val(@) \cup
                               UNION {CharNgrams(Val(texts[i])) : i \in 1..Len(texts)}))
                       ELSE @]
          /\ Called("transform", X, texts, r)
    /\ UNCHANGED <<fitted, xvars>>

\* lines 133-135: AnchorTextTransformer.transform(X)
TextTransform ==
    /\ tr.class = "AnchorTextTransformer"
    /\ \E X \in VectorizerBatches :
       \E texts \in {TextsOf(tr.get_text, X)} :
       \E r \in {TextCall(texts, CountVectorizer_transform(tr.vocab, Strings(texts)))} :
          /\ tr' = [tr EXCEPT !.vocab = r.vocab]
          /\ Called("transform", X, texts, r)
    /\ UNCHANGED <<fitted, xvars>>

\* lines 104-105: AnchorContextTransformer.fit_transform(X)
ContextFitTransform ==
    /\ tr.class = "AnchorContextTransformer"
    /\ \E X \in VectorizerBatches :
       \E dicts \in {DictsOf(tr.feature_funcs, X)} :
       \E r \in {DictVectorizer_fit_transform(dicts)} :
          Fitted(X, r) /\ Called("fit_transform", X, dicts, r)
    /\ UNCHANGED xvars

\* lines 107-108: AnchorContextTransformer.transform(X)
ContextTransform ==
    /\ tr.class = "AnchorContextTransformer"
    /\ \E X \in VectorizerBatches :
       \E dicts \in {DictsOf(tr.feature_funcs, X)} :
       \E r \in {DictVectorizer_transform(tr.vocab, dicts)} :
          /\ tr' = [tr EXCEPT !.vocab = r.vocab]
          /\ Called("transform", X, dicts, r)
    /\ UNCHANGED <<fitted, xvars>>

\* lines 139-140: AnchorEditDistanceTransformer.get_feature_names()
EditFeatureNames == <<"edit_distance">>

\* the distances in one row
EditMatrix_NoReshape(distances) ==
    [rows |-> <<distances>>, ncols |-> Len(distances)]

\* lines 147-149: np.array(distances) reshaped to (r.shape[0], 1)
EditMatrix(distances) ==
    [rows |-> [i \in 1..Len(distances) |-> <<distances[i]>>], ncols |-> 1]

\* lines 142-143: AnchorEditDistanceTransformer.fit(X)
EditFit ==
    /\ tr.class = "AnchorEditDistanceTransformer"
    /\ \E X \in EditBatches :
          last' = Some([op |-> "fit", batch |-> X, fed |-> <<>>, status |-> "ok",
                        matrix |-> NoMatrix, used |-> None, ret |-> "self"])
    /\ UNCHANGED <<tr, fitted, xvars>>

\* lines 145-149: AnchorEditDistanceTransformer.transform(X)
EditTransform ==
    /\ tr.class = "AnchorEditDistanceTransformer"
    /\ \E X \in EditBatches :
          LET distances == [i \in 1..Len(X) |-> url_edit_distance(X[i][1], X[i][2])]
          IN last' = Some([op |-> "transform", batch |-> X, fed |-> distances,
                           status |-> "ok", matrix |-> EditMatrix(distances),
                           used |-> None, ret |-> "matrix"])
    /\ UNCHANGED <<tr, fitted, xvars>>

TNext ==
    \/ TextFitTransform
    \/ TextTransform
    \/ ContextFitTransform
    \/ ContextTransform
    \/ EditFit
    \/ EditTransform

SpecTransformers == TInit /\ [][TNext]_vars

-----------------------------------------------------------------------------
(* Claims about the transformers *)

Vectorizing == tr.class \in {"AnchorTextTransformer", "AnchorContextTransformer"}

\* what the pair of row i of the last call offers the vectorizer: the
\* <<fragment, value>> pairs of its text or of its merged dictionary
Fragments(i) ==
    LET c == Val(last) IN
    IF tr.class = "AnchorTextTransformer"
    THEN {<<g, 1>> : g \in CharNgrams(Val(StrategyText(tr.get_text, c.batch[i][1])))}
    ELSE {<<FeatureName(k, c.fed[i][k]), FeatureValue(c.fed[i][k])>> : k \in DOMAIN c.fed[i]}

\* C6: after a fit_transform that succeeded, transform succeeds on every batch
\* and gives a matrix with as many columns as the fitted vocabulary has
\* fragments; on the fitted batch it gives the matrix fit_transform gave; a
\* fragment that is not in the vocabulary adds to no column, each entry being
\* the value of the known fragment of its column, or zero
C6_VocabularyStable ==
    (Vectorizing /\ ~IsNone(fitted) /\ ~IsNone(last) /\ Val(last).op = "transform") =>
        LET c == Val(last)
            f == Val(fitted)
        IN /\ c.status = "ok"
           /\ Len(c.matrix.rows) = Len(c.batch)
           /\ c.matrix.ncols = Cardinality(DOMAIN f.vocab)
           /\ c.batch = f.batch => c.matrix = f.matrix
           /\ \A i \in 1..Len(c.batch) :
                 /\ Len(c.matrix.rows[i]) = c.matrix.ncols
                 /\ \A j \in 1..c.matrix.ncols :
                       c.matrix.rows[i][j] =
                          (IF \E g \in Fragments(i) : g[1] \in DOMAIN f.vocab /\ f.vocab[g[1]] = j - 1
                           THEN (CHOOSE g \in Fragments(i) :
                                    g[1] \in DOMAIN f.vocab /\ f.vocab[g[1]] = j - 1)[2]
                           ELSE 0)

C6_Witness ==
    /\ tr.class = "AnchorTextTransformer"
    /\ ~IsNone(fitted)
    /\ ~IsNone(last)
    /\ Val(last).op = "transform"
    /\ Val(last).batch # Val(fitted).batch
    /\ \E i \in 1..Len(Val(last).batch) :
          /\ \E g \in Fragments(i) : g[1] \notin DOMAIN Val(fitted).vocab
          /\ \E j \in 1..Val(last).matrix.ncols : Val(last).matrix.rows[i][j] = 1

\* C7: the vocabulary of a vectorizing transformer changes only in a
\* fit_transform step; a transform step leaves it as it was, whatever the batch,
\* and works with the vocabulary the last fit_transform fitted
C7_VocabularyFrozen ==
    [][ (tr.class \in {"AnchorTextTransformer", "AnchorContextTransformer"}) =>
           /\ tr'.vocab # tr.vocab => Val(last').op = "fit_transform"
           /\ (last' # last /\ Val(last').op = "transform") =>
                 /\ tr'.vocab = tr.vocab
                 /\ Val(last').used = (IF IsNone(fitted) THEN None
                                       ELSE Some(Val(fitted).vocab)) ]_vars

C7_Witness ==
    /\ tr.class = "AnchorContextTransformer"
    /\ ~IsNone(fitted)
    /\ ~IsNone(last)
    /\ Val(last).op = "transform"
    /\ Val(last).status = "ok"
    /\ Val(last).batch # Val(fitted).batch
    /\ \E i \in 1..Len(Val(last).batch) :
          \E g \in Fragments(i) : g[1] \notin DOMAIN Val(fitted).vocab

\* C8: the edit-distance transformer holds no state; fit gives back the
\* transformer; transform of n pairs gives n rows of one column, the column
\* edit_distance, row i holding url_edit_distance of pair i
C8_EditDistanceStateless ==
    tr.class = "AnchorEditDistanceTransformer" =>
        /\ tr.attrs = {}
        /\ IsNone(fitted)
        /\ ~IsNone(last) =>
              LET c == Val(last) IN
              /\ c.status = "ok"
              /\ c.op = "fit" => c.ret = "self"
              /\ c.op = "transform" =>
                    /\ EditFeatureNames = <<"edit_distance">>
                    /\ c.matrix.ncols = 1
                    /\ Len(c.matrix.rows) = Len(c.batch)
                    /\ \A i \in 1..Len(c.batch) :
                          c.matrix.rows[i] = <<url_edit_distance(c.batch[i][1], c.batch[i][2])>>

C8_Witness ==
    /\ tr.class = "AnchorEditDistanceTransformer"
    /\ ~IsNone(last)
    /\ Val(last).op = "transform"
    /\ Val(last).matrix.rows = << <<1>>, <<3>> >>

\* the positions of the configured functions that produce key k for pair p
Producers(k, p) ==
    {n \in 1..Len(tr.feature_funcs) : k \in DOMAIN ApplyFunc(tr.feature_funcs[n], p[1], p[2])}

\* C9: the vectorizer is fed one dictionary per pair, in the order of the
\* pairs; the dictionary of a pair holds every key a configured function
\* produces for it, with the value of the last configured function producing it
C9_MergedDictionaries ==
    (tr.class = "AnchorContextTransformer" /\ ~IsNone(last)) =>
        LET c == Val(last) IN
        /\ Len(c.fed) = Len(c.batch)
        /\ c.status = "ok" => Len(c.matrix.rows) = Len(c.batch)
        /\ \A i \in 1..Len(c.batch) :
              /\ DOMAIN c.fed[i] =
                    UNION {DOMAIN ApplyFunc(tr.feature_funcs[n], c.batch[i][1], c.batch[i][2]) :
                             n \in 1..Len(tr.feature_funcs)}
              /\ \A k \in DOMAIN c.fed[i] :
                    \E n \in Producers(k, c.batch[i]) :
                       /\ \A m \in Producers(k, c.batch[i]) : m <= n
                       /\ c.fed[i][k] = ApplyFunc(tr.feature_funcs[n], c.batch[i][1], c.batch[i][2])[k]

C9_Witness ==
    /\ tr.class = "AnchorContextTransformer"
    /\ tr.feature_funcs = <<"block_length", "count_links", "count_pages">>
    /\ ~IsNone(last)
    /\ Len(Val(last).batch) = 2
    /\ Val(last).batch[1] # Val(last).batch[2]
    /\ Val(last).fed[1]["k"] = <<"num", 2>>
    /\ Val(last).fed[1]["block_length"] = <<"num", 1>>

====
